---- MODULE Spec2Model ----
(***************************************************************************)
(* Model of dags/aviationstack_departures_gig.py: the three Airflow tasks  *)
(* extract -> transform -> load of the DAG aviationstack_departures_gig.   *)
(*                                                                         *)
(* Text values (ICAO codes, airline names, flight numbers, the aggregated  *)
(* codeshare string) are sequences of character codes, so that upper(),    *)
(* string concatenation, sorted() and " / ".join() are computed as Python  *)
(* computes them.  Column names are TLA+ strings: the code only compares   *)
(* them for equality.                                                      *)
(***************************************************************************)
EXTENDS Integers, Sequences, FiniteSets, TLC

\* ---------------- Basic Config ----------------
LIMIT == 100
MAX_PAGES == 5
RETRIES == 2

\* ---------------- Bounds of the model ----------------
\* longest non-full page the modelled API serves in the paging specification
MaxShort == 2
\* longest record list handed to transform() in the transform specification
MaxRecs == 3

VARIABLES
    pc,           \* position of the DAG run: which task runs next / final state
    tries,        \* failed attempts of the current task (Airflow try counter)
    api_key,      \* TRUE iff AVIATIONSTACK_API_KEY is set in the environment
    all_records,  \* extract(): local all_records
    offset,       \* extract(): local offset
    pages,        \* extract(): local pages
    requests,     \* history: offsets of the GETs issued by the current extract() call
    received,     \* history: the batches of the 200/list responses of that call
    xcom,         \* value returned by extract() and handed to transform()
    csv,          \* content of /opt/airflow/data/Departures.csv
    origin,       \* history: for each row of csv, the position of its record in xcom
    error,        \* the exception of the current task attempt ("" if none)
    ran           \* history: the tasks that have started in this DAG run

vars == <<pc, tries, api_key, all_records, offset, pages, requests, received,
          xcom, csv, origin, error, ran>>

\* ------------------------------------------------------------------------
\* Values of a DataFrame cell / JSON leaf
\* ------------------------------------------------------------------------
Str(s) == [k |-> "str", s |-> s]
\* JSON null
None == [k |-> "none", s |-> <<>>]
\* pandas missing value (NaN / pd.NA / NaT)
NaN == [k |-> "nan", s |-> <<>>]

notna(v) == v.k = "str"

\* Series.astype(str): str(None) = "None", str(float("nan")) = "nan"
astype_str(v) ==
    IF v.k = "str" THEN v.s
    ELSE IF v.k = "none" THEN <<78, 111, 110, 101>>
    ELSE <<110, 97, 110>>

\* Series.fillna("")
fillna_empty(v) == IF notna(v) THEN v ELSE Str(<<>>)

\* str.upper() on ASCII text
upper(s) == [i \in 1..Len(s) |-> IF s[i] \in 97..122 THEN s[i] - 32 ELSE s[i]]

Range(s) == {s[i] : i \in 1..Len(s)}

Min2(a, b) == IF a < b THEN a ELSE b

\* Python's str "<": code-point lexicographic, a proper prefix sorts first
StrLess(a, b) ==
    \E i \in 1..(Min2(Len(a), Len(b)) + 1) :
        /\ \A j \in 1..(i - 1) : a[j] = b[j]
        /\ \/ i > Len(a) /\ i <= Len(b)
           \/ i <= Len(a) /\ i <= Len(b) /\ a[i] < b[i]

\* a followed by the elements of b that are not in a
union_in_order(a, b) ==
    LET new(x) == x \notin Range(a) IN a \o SelectSeq(b, new)

\* the distinct elements of l[lo..hi], listed by first occurrence
RECURSIVE distinct(_, _, _)
distinct(l, lo, hi) ==
    IF lo > hi THEN <<>>
    ELSE IF lo = hi THEN <<l[lo]>>
    ELSE LET mid == (lo + hi) \div 2
         IN union_in_order(distinct(l, lo, mid), distinct(l, mid + 1, hi))

\* set(l): the distinct elements of l
set_of(l) == distinct(l, 1, Len(l))

\* concatenation of the lists ll[lo..hi]
RECURSIVE concat(_, _, _)
concat(ll, lo, hi) ==
    IF lo > hi THEN <<>>
    ELSE IF lo = hi THEN ll[lo]
    ELSE LET mid == (lo + hi) \div 2
         IN concat(ll, lo, mid) \o concat(ll, mid + 1, hi)

flatten(ll) == concat(ll, 1, Len(ll))

\* insertion of x into the sorted list l
RECURSIVE insort(_, _)
insort(x, l) ==
    IF l = <<>> THEN <<x>>
    ELSE IF StrLess(x, l[1]) THEN <<x>> \o l
    ELSE <<l[1]>> \o insort(x, Tail(l))

\* sorted(l) for a list of strings
RECURSIVE sorted(_)
sorted(l) ==
    IF l = <<>> THEN <<>>
    ELSE insort(l[Len(l)], sorted(SubSeq(l, 1, Len(l) - 1)))

\* sep.join(list_of_strings)
RECURSIVE join(_, _)
join(sep, l) ==
    IF l = <<>> THEN <<>>
    ELSE IF Len(l) = 1 THEN l[1]
    ELSE l[1] \o sep \o join(sep, Tail(l))

\* " / "
SLASH_SEP == <<32, 47, 32>>

\* " "
SPACE == <<32>>

\* ------------------------------------------------------------------------
\* Column names
\* ------------------------------------------------------------------------
CS_ICAO == "flight.codeshared.flight_icao"
FLIGHT_ICAO == "flight.icao"
AIRLINE_NAME == "airline.name"
FLIGHT_NUMBER == "flight.number"
CODESHARE == "codeshare"
TS_COLUMNS == <<"departure.scheduled", "departure.estimated", "departure.actual">>
DATE_COLUMNS == <<"scheduled_date", "estimated_date", "actual_date">>
TIME_COLUMNS == <<"scheduled_time", "estimated_time", "actual_time">>

columns_to_keep ==
    << "flight_status", "departure.airport", "departure.timezone", "departure.iata",
       "departure.icao", "departure.terminal", "departure.gate", "departure.delay",
       "arrival.airport", "arrival.iata", "arrival.icao", "airline.name",
       "airline.iata", "airline.icao", "flight.number", "flight.iata", "flight.icao",
       "codeshare", "scheduled_date", "scheduled_time", "estimated_date",
       "estimated_time", "actual_date", "actual_time" >>

\* ------------------------------------------------------------------------
\* DataFrame: [columns |-> sequence of names, rows |-> sequence of rows];
\* a row is [cells |-> function column -> value, src |-> position in records].
\* src is lineage only: no operation reads it.
\* A raw record is the flattened JSON object: a sequence of <<path, value>>
\* in the object's key order.
\* ------------------------------------------------------------------------
HasCol(df, c) == c \in Range(df.columns)

RecKeys(rec) == [i \in 1..Len(rec) |-> rec[i][1]]

RecGet(rec, c) ==
    IF \E i \in 1..Len(rec) : rec[i][1] = c
    THEN rec[CHOOSE i \in 1..Len(rec) : rec[i][1] = c][2]
    ELSE NaN

\* columns of the DataFrame of a list of dicts: the keys by first appearance
first_seen(records) == set_of(flatten([i \in 1..Len(records) |-> RecKeys(records[i])]))

json_normalize(records) ==
    LET cols == first_seen(records)
        cset == Range(cols)
    IN [columns |-> cols,
        rows |-> [i \in 1..Len(records) |->
                    [cells |-> [c \in cset |-> RecGet(records[i], c)], src |-> i]]]

\* row[c] = v (a column the row does not have yet is added)
set_cell(row, c, v) ==
    [cells |-> (c :> v) @@ row.cells, src |-> row.src]

\* df[c] = ...: a new column goes last, an existing one keeps its place
add_column(cols, c) == IF c \in Range(cols) THEN cols ELSE Append(cols, c)

\* --- Codeshare mapping (lines 113-132) ---
is_ref(row) == notna(row.cells[CS_ICAO])

pair(row) ==
    astype_str(fillna_empty(row.cells[AIRLINE_NAME])) \o SPACE
        \o astype_str(row.cells[FLIGHT_NUMBER])

group_key(row) == upper(astype_str(row.cells[CS_ICAO]))

\* faulty variant, for mutation analysis: the pairs joined without sorted()
group_apply_unsorted(s) == join(SLASH_SEP, set_of(s))

\* lambda s: " / ".join(sorted(set(s)))
group_apply(s) == join(SLASH_SEP, sorted(set_of(s)))

\* faulty variant, for mutation analysis: one entry per referencing row instead of one per group
group_keys_per_row(ref) == sorted([i \in 1..Len(ref) |-> group_key(ref[i])])

\* the groups of ref.groupby(key): one per distinct key, in key order
group_keys(ref) == sorted(set_of([i \in 1..Len(ref) |-> group_key(ref[i])]))

build_agg(df) ==
    LET ref == SelectSeq(df.rows, is_ref)
        ks == group_keys(ref)
        member(k) == LET same(r) == group_key(r) = k IN SelectSeq(ref, same)
        pairs(k) == LET m == member(k) IN [i \in 1..Len(m) |-> pair(m[i])]
    IN [i \in 1..Len(ks) |-> [key |-> ks[i], codeshare |-> group_apply(pairs(ks[i]))]]

\* df["flight.icao"].astype(str).str.upper()
icao_key(row) == upper(astype_str(row.cells[FLIGHT_ICAO]))

\* df.merge(agg, how="left", on="flight.icao"): every left row once per matching
\* row of agg, in left order; a left row without a match once, codeshare missing
merge_row(row, agg) ==
    LET hit(a) == a.key = row.cells[FLIGHT_ICAO].s
        m == SelectSeq(agg, hit)
    IN IF m = <<>> THEN <<set_cell(row, CODESHARE, NaN)>>
       ELSE [j \in 1..Len(m) |-> set_cell(row, CODESHARE, Str(m[j].codeshare))]

merge_left(df, agg) ==
    [columns |-> add_column(df.columns, CODESHARE),
     rows |-> flatten([i \in 1..Len(df.rows) |-> merge_row(df.rows[i], agg)])]

\* faulty variant, for mutation analysis: the codeshared entries keep the joined value
clear_nothing(row) == row

\* df.loc[df["flight.codeshared.flight_icao"].notna(), "codeshare"] = pd.NA
clear_codeshared(row) == IF is_ref(row) THEN set_cell(row, CODESHARE, NaN) ELSE row

\* faulty variant, for mutation analysis: an all-missing codeshare column is created when mapping is skipped
skip_with_empty_column(df) ==
    [columns |-> add_column(df.columns, CODESHARE),
     rows |-> [i \in 1..Len(df.rows) |-> set_cell(df.rows[i], CODESHARE, NaN)]]

\* lines 141-142: only a warning is logged, the table is left as it is
skip_mapping(df) == df

codeshare_mapping(df) ==
    IF HasCol(df, CS_ICAO)
    THEN LET agg == build_agg(df)
         IN IF HasCol(df, FLIGHT_ICAO)
            THEN LET up == [columns |-> df.columns,
                            rows |-> [i \in 1..Len(df.rows) |->
                                set_cell(df.rows[i], FLIGHT_ICAO, Str(icao_key(df.rows[i])))]]
                     mg == merge_left(up, agg)
                 IN [columns |-> mg.columns,
                     rows |-> [i \in 1..Len(mg.rows) |-> clear_codeshared(mg.rows[i])]]
            ELSE df
    ELSE skip_mapping(df)

\* ref = df.loc[..., [CS_ICAO, "airline.name", "flight.number"]] raises KeyError
\* when one of the listed columns does not exist
raises_KeyError(df) ==
    HasCol(df, CS_ICAO) /\ ~(HasCol(df, AIRLINE_NAME) /\ HasCol(df, FLIGHT_NUMBER))

\* --- Handling null values (lines 145-150) ---
keeps_row(row) == notna(row.cells[CODESHARE])

dropna_codeshare(df) ==
    IF HasCol(df, CODESHARE)
    THEN [columns |-> df.columns, rows |-> SelectSeq(df.rows, keeps_row)]
    ELSE df

\* --- Datetime conversions and split into date/time columns (lines 153-165) ---
\* Modelled timestamps are three characters, <digit> "T" <digit>: the first
\* digit stands for the calendar date, the last for the time of day.
is_timestamp(s) == Len(s) = 3 /\ s[1] \in 48..57 /\ s[2] = 84 /\ s[3] \in 48..57

\* pd.to_datetime(v, errors="coerce"): NaT for what does not parse
to_datetime(v) == IF notna(v) /\ is_timestamp(v.s) THEN v ELSE NaN

dt_date(t) == IF notna(t) THEN Str(<<t.s[1]>>) ELSE NaN

dt_time(t) == IF notna(t) THEN Str(<<t.s[3]>>) ELSE NaN

split_one(df, k) ==
    IF HasCol(df, TS_COLUMNS[k])
    THEN [columns |-> add_column(add_column(df.columns, DATE_COLUMNS[k]), TIME_COLUMNS[k]),
          rows |-> [i \in 1..Len(df.rows) |->
              LET t == to_datetime(df.rows[i].cells[TS_COLUMNS[k]])
              IN set_cell(set_cell(set_cell(df.rows[i], TS_COLUMNS[k], t),
                                   DATE_COLUMNS[k], dt_date(t)),
                          TIME_COLUMNS[k], dt_time(t))]]
    ELSE df

split_times(df) == split_one(split_one(split_one(df, 1), 2), 3)

\* --- Final column selection (lines 168-199) ---
\* faulty variant, for mutation analysis: the kept columns listed in the table's order
keep_in_table_order(df) ==
    LET listed(c) == c \in Range(columns_to_keep) IN SelectSeq(df.columns, listed)

\* keep = [c for c in columns_to_keep if c in df.columns]
keep_columns(df) ==
    LET present(c) == HasCol(df, c) IN SelectSeq(columns_to_keep, present)

\* df[keep].reset_index(drop=True)
project(df) ==
    LET keep == keep_columns(df)
    IN [columns |-> keep,
        rows |-> [i \in 1..Len(df.rows) |->
            [cells |-> [c \in Range(keep) |-> df.rows[i].cells[c]],
             src |-> df.rows[i].src]]]

\* --- Write CSV (lines 201-206) ---
\* a missing value is written as the empty field
csv_field(v) == IF notna(v) THEN v.s ELSE <<>>

to_csv(df) ==
    [exists |-> TRUE,
     header |-> df.columns,
     rows |-> [i \in 1..Len(df.rows) |->
         [j \in 1..Len(df.columns) |-> csv_field(df.rows[i].cells[df.columns[j]])]]]

NoFile == [exists |-> FALSE, header |-> <<>>, rows |-> <<>>]

\* the DataFrame transform() writes, for records that do not make it raise
final_df(records) ==
    project(split_times(dropna_codeshare(codeshare_mapping(json_normalize(records)))))

lineage(df) == [i \in 1..Len(df.rows) |-> df.rows[i].src]

\* ------------------------------------------------------------------------
\* The records the modelled API can serve
\* ------------------------------------------------------------------------
\* "ab", "AB", "CD", "cd": flight ICAO codes in both letter cases
icao_ab == <<97, 98>>
icao_AB == <<65, 66>>
icao_CD == <<67, 68>>
icao_cd == <<99, 100>>
\* "Al", "Be": airline names;  "1", "2", "7": flight numbers
name_Al == <<65, 108>>
name_Be == <<66, 101>>
num_1 == <<49>>
num_2 == <<50>>
num_7 == <<55>>

\* an operating flight: no codeshared object
operating(icao, sched) ==
    << <<"flight_status", Str(<<97>>)>>, <<"departure.scheduled", sched>>,
       <<AIRLINE_NAME, Str(name_Al)>>, <<FLIGHT_NUMBER, Str(num_7)>>,
       <<FLIGHT_ICAO, icao>>, <<"aircraft.icao24", None>> >>

\* a codeshared entry (a marketing flight number of the operating flight cs);
\* its keys come in another order than the output list's
codeshared(icao, cs, name, number) ==
    << <<"flight_date", Str(<<49>>)>>, <<FLIGHT_ICAO, icao>>, <<FLIGHT_NUMBER, number>>,
       <<CS_ICAO, cs>>, <<AIRLINE_NAME, name>>, <<"departure.actual", Str(<<51, 84, 52>>)>>,
       <<"departure.scheduled", Str(<<120>>)>> >>

OperatingRecs ==
    { operating(Str(icao_ab), Str(<<49, 84, 50>>)),
      operating(Str(icao_CD), Str(<<49, 84, 50>>)),
      operating(None, None),
      \* "codeshared": {"flight_icao": null}
      Append(operating(Str(icao_ab), Str(<<49, 84, 50>>)), <<CS_ICAO, None>>) }

CodesharedRecs ==
    { codeshared(Str(icao_CD), Str(cs), nn[1], Str(nn[2])) :
        cs \in {icao_AB, icao_cd},
        nn \in { <<None, num_2>>, <<Str(name_Al), num_1>>, <<Str(name_Be), num_1>> } }

\* records lacking keys the others have
SparseRecs ==
    { << <<FLIGHT_ICAO, Str(icao_ab)>> >>,
      << <<CS_ICAO, Str(icao_AB)>>, <<FLIGHT_NUMBER, Str(num_1)>>, <<FLIGHT_ICAO, Str(icao_CD)>> >>,
      << <<CS_ICAO, Str(icao_AB)>>, <<AIRLINE_NAME, Str(name_Be)>>, <<FLIGHT_NUMBER, Str(num_2)>> >> }

RecordPool == OperatingRecs \cup CodesharedRecs \cup SparseRecs

\* the non-empty lists of at most n records of pool
Lists(pool, n) == UNION { [1..k -> pool] : k \in 1..n }

\* the pages of the paging specification: empty, short, exactly LIMIT, over LIMIT
PagePool ==
    { operating(Str(icao_ab), Str(<<49, 84, 50>>)),
      codeshared(Str(icao_CD), Str(icao_AB), Str(name_Al), Str(num_1)),
      \* a codeshared entry without airline.name
      << <<CS_ICAO, Str(icao_AB)>>, <<FLIGHT_NUMBER, Str(num_1)>>, <<FLIGHT_ICAO, Str(icao_CD)>> >> }

FullPages ==
    { [i \in 1..LIMIT |-> operating(Str(icao_ab), Str(<<49, 84, 50>>))],
      [i \in 1..(LIMIT + 1) |->
          codeshared(Str(icao_CD), Str(icao_AB), Str(name_Be), Str(num_2))] }

Batches == {<<>>} \cup Lists(PagePool, MaxShort) \cup FullPages

\* ------------------------------------------------------------------------
\* extract() (lines 42-95)
\* ------------------------------------------------------------------------
\* faulty variant, for mutation analysis: one pass too many
loop_cond_off_by_one(p) == p <= MAX_PAGES

\* while pages < MAX_PAGES
loop_cond(p) == p < MAX_PAGES

\* faulty variant, for mutation analysis: the comparison inverted
is_short_page_inverted(batch) == Len(batch) > LIMIT

\* if len(batch) < LIMIT: break
is_short_page(batch) == Len(batch) < LIMIT

\* faulty variant, for mutation analysis: the offset counted in pages instead of records
next_offset_by_one(o) == o + 1

\* offset += LIMIT
next_offset(o) == o + LIMIT

\* all_records.extend(batch)
extend(all, batch) == all \o batch

\* faulty variant, for mutation analysis: the emptiness check left out
no_data_never(recs) == FALSE

\* if not all_records
no_data(recs) == recs = <<>>

\* faulty variant, for mutation analysis: an ordinary exception, which Airflow answers by running extract again
plain_exception(msg) ==
    /\ pc' = "extract"
    /\ error' = msg

\* raise AirflowFailException(...): the task fails and is not retried;
\* the downstream tasks never run
AirflowFail(msg) ==
    /\ pc' = "failed"
    /\ error' = msg

\* any other exception: Airflow runs the task again while retries are left
TaskException(task, msg) ==
    /\ error' = msg
    /\ IF tries < RETRIES
       THEN pc' = task /\ tries' = tries + 1
       ELSE pc' = "failed" /\ tries' = tries

Init ==
    /\ pc = "extract"
    /\ tries = 0
    /\ api_key \in BOOLEAN
    /\ all_records = <<>>
    /\ offset = 0
    /\ pages = 0
    /\ requests = <<>>
    /\ received = <<>>
    /\ xcom = <<>>
    /\ csv = NoFile
    /\ origin = <<>>
    /\ error = ""
    /\ ran = {}

\* lines 49-57
ExtractStart ==
    /\ pc = "extract"
    /\ ran' = ran \cup {"extract"}
    /\ all_records' = <<>>
    /\ offset' = 0
    /\ pages' = 0
    /\ requests' = <<>>
    /\ received' = <<>>
    /\ IF ~api_key
       THEN AirflowFail("Missing API key")
       ELSE pc' = "extract_loop" /\ error' = ""
    /\ UNCHANGED <<tries, api_key, xcom, csv, origin>>

\* line 66: requests.get raises (timeout=60, connection error)
RequestTimeout ==
    /\ pc = "extract_loop"
    /\ requests' = Append(requests, offset)
    /\ TaskException("extract", "Timeout")
    /\ UNCHANGED <<api_key, all_records, offset, pages, received, xcom, csv, origin, ran>>

\* lines 68-71
RequestHttpError ==
    /\ pc = "extract_loop"
    /\ \E status \in {401, 500} :
        /\ status # 200
        /\ requests' = Append(requests, offset)
        /\ AirflowFail("HTTP")
    /\ UNCHANGED <<tries, api_key, all_records, offset, pages, received, xcom, csv,
                   origin, ran>>

\* lines 73-77: no "data" in the payload, or "data" is not a list
RequestBadPayload ==
    /\ pc = "extract_loop"
    /\ \E shape \in {"no data", "data not a list"} :
        /\ requests' = Append(requests, offset)
        /\ AirflowFail("Unexpected API response")
    /\ UNCHANGED <<tries, api_key, all_records, offset, pages, received, xcom, csv,
                   origin, ran>>

\* lines 79-95: one pass of the loop on a list-shaped page and, when the loop
\* ends with it, the code after the loop
RequestPage ==
    /\ pc = "extract_loop"
    /\ \E batch \in Batches :
        LET recs == IF batch = <<>> THEN all_records ELSE extend(all_records, batch)
            stop == batch = <<>> \/ is_short_page(batch)
            p2 == IF stop THEN pages ELSE pages + 1
            o2 == IF stop THEN offset ELSE next_offset(offset)
        IN /\ requests' = Append(requests, offset)
           /\ received' = Append(received, batch)
           /\ all_records' = recs
           /\ pages' = p2
           /\ offset' = o2
           /\ IF ~stop /\ loop_cond(p2)
              THEN pc' = "extract_loop" /\ UNCHANGED <<xcom, error, tries>>
              ELSE IF no_data(recs)
                   THEN AirflowFail("API returned no data.") /\ UNCHANGED <<xcom, tries>>
                   ELSE pc' = "transform" /\ xcom' = recs /\ tries' = 0
                        /\ UNCHANGED error
    /\ UNCHANGED <<api_key, csv, origin, ran>>

\* ------------------------------------------------------------------------
\* transform() (lines 98-206) and load() (lines 209-211)
\* ------------------------------------------------------------------------
Transform ==
    /\ pc = "transform"
    /\ ran' = ran \cup {"transform"}
    /\ IF raises_KeyError(json_normalize(xcom))
       THEN TaskException("transform", "KeyError") /\ UNCHANGED <<csv, origin>>
       ELSE LET out == final_df(xcom)
            IN /\ csv' = to_csv(out)
               /\ origin' = lineage(out)
               /\ pc' = "load"
               /\ tries' = 0
               /\ error' = ""
    /\ UNCHANGED <<api_key, all_records, offset, pages, requests, received, xcom>>

Load ==
    /\ pc = "load"
    /\ ran' = ran \cup {"load"}
    /\ pc' = "success"
    /\ UNCHANGED <<tries, api_key, all_records, offset, pages, requests, received,
                   xcom, csv, origin, error>>

Next ==
    \/ ExtractStart
    \/ RequestTimeout
    \/ RequestHttpError
    \/ RequestBadPayload
    \/ RequestPage
    \/ Transform
    \/ Load

\* the whole DAG run, the API serving any page at each request
Spec == Init /\ [][Next]_vars

\* transform() and load() on every record list of the pool, as left by an
\* extract() that got them in one short page
InitT ==
    /\ pc = "transform"
    /\ tries = 0
    /\ api_key = TRUE
    /\ xcom \in Lists(RecordPool, MaxRecs)
    /\ all_records = xcom
    /\ offset = 0
    /\ pages = 0
    /\ requests = <<0>>
    /\ received = <<xcom>>
    /\ csv = NoFile
    /\ origin = <<>>
    /\ error = ""
    /\ ran = {"extract"}

NextT == Transform \/ Load

SpecT == InitT /\ [][NextT]_vars

\* ------------------------------------------------------------------------
\* Properties of extract() and of the DAG run (checked under Spec)
\* ------------------------------------------------------------------------
\* extract() has returned its records to the scheduler
ExtractReturned == pc \in {"transform", "load", "success"} \/ "transform" \in ran

IsFull(batch) == Len(batch) >= LIMIT

\* C1: a page with fewer than LIMIT records (the empty page included) is the
\* last page of the call: no request follows it and extract() is over; the
\* records of a short non-empty page are the end of the returned list.
C1_LastPageDetection ==
    \A i \in 1..Len(received) :
        Len(received[i]) < LIMIT =>
            /\ i = Len(received)
            /\ Len(requests) = i
            /\ pc \notin {"extract", "extract_loop"}
            /\ received[i] # <<>> =>
                /\ ExtractReturned
                /\ Len(xcom) >= Len(received[i])
                /\ SubSeq(xcom, Len(xcom) - Len(received[i]) + 1, Len(xcom)) = received[i]

\* a short non-empty page arrived after a full one and extract() returned
C1_Witness ==
    /\ pc = "transform"
    /\ Len(received) = 2
    /\ IsFull(received[1])
    /\ received[2] # <<>> /\ Len(received[2]) < LIMIT

\* C2: never more than MAX_PAGES requests in one call; while every response is
\* a full page the call goes on until exactly MAX_PAGES requests are made,
\* then returns, without error, the records of exactly those pages.
C2_MaxPageBound ==
    /\ Len(requests) <= MAX_PAGES
    /\ ( /\ api_key
         /\ pc # "extract"
         /\ Len(received) = Len(requests)
         /\ \A i \in 1..Len(received) : IsFull(received[i]) )
       => IF Len(requests) < MAX_PAGES
          THEN pc = "extract_loop"
          ELSE /\ ExtractReturned
               /\ error = ""
               /\ Len(received) = MAX_PAGES
               /\ xcom = flatten(received)

\* MAX_PAGES full pages, one of them over LIMIT, and extract() returned
C2_Witness ==
    /\ pc = "transform"
    /\ Len(requests) = MAX_PAGES
    /\ \A i \in 1..Len(received) : IsFull(received[i])
    /\ \E i \in 1..Len(received) : Len(received[i]) > LIMIT

\* C3: when the first page is a well-formed empty list, extract() fails with
\* the empty-result error, transform() never runs and no file is written.
C3_EmptyResult ==
    (received # <<>> /\ received[1] = <<>>) =>
        /\ pc = "failed"
        /\ error = "API returned no data."
        /\ "transform" \notin ran
        /\ xcom = <<>>
        /\ csv = NoFile

C3_Witness == received = << <<>> >> /\ pc = "failed"

\* C7: a non-200 status, a payload without a list-valued data field or a
\* missing credential ends the run at once: the failing request is the last
\* one, nothing is retried, the records of the earlier pages are not returned,
\* and no file is written.  A file exists only once transform() has completed.
C7_AbortWithoutOutput ==
    /\ error \in {"HTTP", "Unexpected API response", "Missing API key"} =>
        /\ pc = "failed"
        /\ xcom = <<>>
        /\ "transform" \notin ran
        /\ csv = NoFile
        /\ IF error = "Missing API key"
           THEN requests = <<>>
           ELSE Len(requests) = Len(received) + 1
    /\ pc = "failed" => csv = NoFile
    /\ csv.exists <=> pc \in {"load", "success"}

\* an HTTP error after two pages had been accumulated
C7_Witness ==
    /\ error = "HTTP"
    /\ pc = "failed"
    /\ Len(received) = 2
    /\ all_records # <<>>

\* C9: the k-th request of a call has offset (k-1)*LIMIT, and the records
\* accumulated, and returned on success, are the pages received, each once,
\* in request order.
C9_OffsetsAndOrder ==
    /\ \A k \in 1..Len(requests) : requests[k] = (k - 1) * LIMIT
    /\ pc = "extract_loop" => all_records = flatten(received)
    /\ pc \in {"transform", "load", "success"} => xcom = flatten(received)

\* three pages of different content were received and returned
C9_Witness ==
    /\ pc = "transform"
    /\ Len(requests) = 3
    /\ received[1] # received[2]
    /\ received[3] # <<>>
    /\ Len(xcom) = Len(received[1]) + Len(received[2]) + Len(received[3])

\* ------------------------------------------------------------------------
\* Properties of transform() (checked under SpecT), stated on the records
\* handed to transform() (xcom) and on the file it wrote (csv)
\* ------------------------------------------------------------------------
RawHasKey(rec, c) == \E j \in 1..Len(rec) : rec[j][1] = c

\* column c exists in the normalized table: some record has the path
InputHasColumn(c) == \E i \in 1..Len(xcom) : RawHasKey(xcom[i], c)

\* the record gives a (non-null) text at path c
HasText(rec, c) == \E j \in 1..Len(rec) : rec[j][1] = c /\ rec[j][2].k = "str"

TextOf(rec, c) == rec[CHOOSE j \in 1..Len(rec) : rec[j][1] = c /\ rec[j][2].k = "str"][2].s

\* the records that name record k's flight as their operating flight
Referencing(k) ==
    { q \in 1..Len(xcom) :
        /\ HasText(xcom[q], CS_ICAO)
        /\ HasText(xcom[k], FLIGHT_ICAO)
        /\ upper(TextOf(xcom[q], CS_ICAO)) = upper(TextOf(xcom[k], FLIGHT_ICAO)) }

\* "<airline.name or empty> <flight.number>"
PairText(rec) ==
    (IF HasText(rec, AIRLINE_NAME) THEN TextOf(rec, AIRLINE_NAME) ELSE <<>>)
        \o <<32>> \o TextOf(rec, FLIGHT_NUMBER)

\* the elements of a set of strings in increasing order
RECURSIVE Ascending(_)
Ascending(S) ==
    IF S = {} THEN <<>>
    ELSE LET least == CHOOSE x \in S : \A y \in S : x = y \/ StrLess(x, y)
         IN <<least>> \o Ascending(S \ {least})

\* the strings of l with " / " between neighbours
Spliced(l) ==
    IF l = <<>> THEN <<>>
    ELSE l[1] \o flatten([i \in 1..(Len(l) - 1) |-> <<32, 47, 32>> \o l[i + 1]])

ExpectedCodeshare(k) == Spliced(Ascending({ PairText(xcom[q]) : q \in Referencing(k) }))

HeaderHas(c) == \E j \in 1..Len(csv.header) : csv.header[j] = c

Field(i, c) == csv.rows[i][CHOOSE j \in 1..Len(csv.header) : csv.header[j] = c]

\* both columns the codeshare mapping needs exist
Resolved == InputHasColumn(CS_ICAO) /\ InputHasColumn(FLIGHT_ICAO)

\* C4, as claimed: for every record list, every row of the file has a
\* non-empty codeshare field, equal to the sorted, deduplicated,
\* " / "-joined pair strings of all records referencing the row's flight.
C4_AsClaimed ==
    csv.exists =>
        /\ HeaderHas(CODESHARE)
        /\ \A i \in 1..Len(csv.rows) :
            /\ Field(i, CODESHARE) # <<>>
            /\ Field(i, CODESHARE) = ExpectedCodeshare(origin[i])

\* C4, amended: the same, for the record lists in which both the
\* flight.codeshared.flight_icao and the flight.icao column exist.
C4_CodeshareRoundTrip ==
    (csv.exists /\ Resolved) =>
        /\ HeaderHas(CODESHARE)
        /\ \A i \in 1..Len(csv.rows) :
            /\ Field(i, CODESHARE) # <<>>
            /\ Field(i, CODESHARE) = ExpectedCodeshare(origin[i])

\* a written row whose flight is referenced by two records with different
\* pairs, which the input lists in descending order
C4_Witness ==
    /\ csv.exists
    /\ Resolved
    /\ \E i \in 1..Len(csv.rows) :
        LET refs == Referencing(origin[i])
        IN /\ Cardinality(refs) = 2
           /\ Cardinality({ PairText(xcom[q]) : q \in refs }) = 2
           /\ \E q1, q2 \in refs :
                q1 < q2 /\ StrLess(PairText(xcom[q2]), PairText(xcom[q1]))

\* C5: when both columns exist, a record is kept in the file iff it is not a
\* codeshared entry itself and some record names its flight (letter case
\* ignored) as operating flight.
C5_RowRetention ==
    (csv.exists /\ Resolved) =>
        \A k \in 1..Len(xcom) :
            (k \in Range(origin)) <=>
                (~HasText(xcom[k], CS_ICAO) /\ Referencing(k) # {})

\* a codeshared entry whose own flight is referenced is dropped, an operating
\* flight nobody references is dropped, and a referenced operating flight is kept
C5_Witness ==
    /\ csv.exists
    /\ Resolved
    /\ Len(xcom) = 3
    /\ Len(origin) = 1
    /\ \E k \in 1..Len(xcom) :
        HasText(xcom[k], CS_ICAO) /\ Referencing(k) # {} /\ k \notin Range(origin)
    /\ \E k \in 1..Len(xcom) :
        ~HasText(xcom[k], CS_ICAO) /\ Referencing(k) = {} /\ k \notin Range(origin)

\* C6: when no record has flight.codeshared.flight_icao, transform() does not
\* fail, the file has no codeshare column and it has one row per record.
C6_MappingSkipped ==
    ~InputHasColumn(CS_ICAO) =>
        /\ pc # "failed"
        /\ error = ""
        /\ csv.exists <=> pc \in {"load", "success"}
        /\ csv.exists =>
            /\ ~HeaderHas(CODESHARE)
            /\ Len(csv.rows) = Len(xcom)
            /\ origin = [i \in 1..Len(xcom) |-> i]

C6_Witness ==
    /\ ~InputHasColumn(CS_ICAO)
    /\ pc = "success"
    /\ Len(csv.rows) = 3
    /\ ~InputHasColumn(AIRLINE_NAME)

\* the columns of the table when it is projected
TableColumns ==
    UNION { { xcom[i][j][1] : j \in 1..Len(xcom[i]) } : i \in 1..Len(xcom) }
    \cup (IF Resolved THEN {CODESHARE} ELSE {})
    \cup UNION { IF InputHasColumn(TS_COLUMNS[k])
                 THEN {DATE_COLUMNS[k], TIME_COLUMNS[k]} ELSE {} : k \in 1..3 }

ListPosition(c) == CHOOSE j \in 1..Len(columns_to_keep) : columns_to_keep[j] = c

\* C8: the header of the file holds exactly the columns of the 24-entry list
\* that the table has, each once, in the order of the list; every row has one
\* field per header column.
C8_ColumnProjection ==
    /\ Len(columns_to_keep) = 24
    /\ csv.exists =>
        /\ Range(csv.header) = Range(columns_to_keep) \cap TableColumns
        /\ \A i, j \in 1..Len(csv.header) :
            i < j => ListPosition(csv.header[i]) < ListPosition(csv.header[j])
        /\ \A i \in 1..Len(csv.rows) : Len(csv.rows[i]) = Len(csv.header)

\* the table's columns come in another order than the list's, the table has an
\* unlisted column and lacks listed ones, and codeshare was added
C8_Witness ==
    /\ csv.exists
    /\ xcom[1][1][1] = "flight_date"
    /\ xcom[1][2][1] = FLIGHT_ICAO
    /\ HeaderHas(CODESHARE)
    /\ HeaderHas("actual_time")
    /\ ~HeaderHas("flight_status")
    /\ Len(csv.rows) > 0

\* the codeshare index transform() builds from the records it was handed
IndexOfInput == build_agg(json_normalize(xcom))

\* C10: the codeshare index has one entry per distinct uppercased codeshared
\* ICAO, and the rows of the file come from distinct records, in extraction
\* order: the merge adds no row, also when records share a flight.icao.
C10_NoRowMultiplication ==
    /\ (pc = "load" /\ InputHasColumn(CS_ICAO) /\ InputHasColumn(AIRLINE_NAME)
            /\ InputHasColumn(FLIGHT_NUMBER)) =>
        /\ \A i, j \in 1..Len(IndexOfInput) :
            i # j => IndexOfInput[i].key # IndexOfInput[j].key
        /\ { IndexOfInput[i].key : i \in 1..Len(IndexOfInput) }
            = { upper(TextOf(xcom[q], CS_ICAO)) :
                    q \in { n \in 1..Len(xcom) : HasText(xcom[n], CS_ICAO) } }
    /\ csv.exists =>
        /\ Len(origin) = Len(csv.rows)
        /\ Len(csv.rows) <= Len(xcom)
        /\ \A i \in 1..Len(origin) : origin[i] \in 1..Len(xcom)
        /\ \A i, j \in 1..Len(origin) : i < j => origin[i] < origin[j]

\* two kept records share their flight.icao, which another record references
C10_Witness ==
    /\ csv.exists
    /\ Resolved
    /\ Len(origin) = 2
    /\ TextOf(xcom[origin[1]], FLIGHT_ICAO) = TextOf(xcom[origin[2]], FLIGHT_ICAO)
    /\ Referencing(origin[1]) # {}

====
